---- MODULE Spec2Model ----
(***************************************************************************)
(* A model of subsynchronizer: the batch entry point (subsbatch.py), the   *)
(* single-pair entry point (subsynch.py) and the filename matcher          *)
(* (best_media_match / normalize_stem).  One behaviour is one run of one   *)
(* of the programs; the variable prog says which.                          *)
(*                                                                         *)
(* A path is a record [dir, stem, ext]: parent directory, file name        *)
(* without its last suffix (a sequence of one-character strings), and the  *)
(* suffix without its dot.  Scores are exact fractions <<num, den>> with   *)
(* den > 0; over the stems used here the double-precision values of the    *)
(* source compare with each other and with THRESHOLD as the fractions do.  *)
(***************************************************************************)
EXTENDS Integers, Sequences, FiniteSets, TLC

VARIABLES
    prog,               \* which program runs: "subsbatch", "subsynch", "match"
    pc,                 \* position in the program
    fs,                 \* the paths that exist on the filesystem
    calls,              \* the external processes run so far, in order
    have_ffsubsync,     \* have("ffsubsync")
    \* subsbatch.main
    folder,             \* the folder picker's answer
    all_files, subs, media_by_dir,
    idx,                \* position of the for loop in subs
    synced, skipped, failed,
    \* subsynch.main
    media, subsf, out_srt,
    aeneas_importable, have_ffmpeg, have_ffprobe,
    td,                 \* the TemporaryDirectory: "none", "live", "removed"
    scratch,            \* the files inside it
    msgs,               \* the final messages printed
    fallback_attempted,
    \* best_media_match called on its own
    for_sub, media_files, result

vars == <<prog, pc, fs, calls, have_ffsubsync, folder, all_files, subs,
          media_by_dir, idx, synced, skipped, failed, media, subsf, out_srt,
          aeneas_importable, have_ffmpeg, have_ffprobe, td, scratch, msgs,
          fallback_attempted, for_sub, media_files, result>>

batchVars == <<folder, all_files, subs, media_by_dir, idx, synced, skipped, failed>>
singleVars == <<media, subsf, out_srt, aeneas_importable, have_ffmpeg,
                have_ffprobe, td, scratch, msgs, fallback_attempted>>
matchVars == <<for_sub, media_files, result>>

----------------------------------------------------------------------------
(* Bounds *)

MaxLen == 2
MaxCands == 2
MaxFiles == 3

----------------------------------------------------------------------------
(* Paths *)

None == [dir |-> "", stem |-> <<>>, ext |-> ""]

Path(d, s, e) == [dir |-> d, stem |-> s, ext |-> e]

\* p.suffix.lower(), on the suffixes the model uses
suffix_lower(p) ==
    CASE p.ext = "SRT" -> "srt"
      [] p.ext = "MKV" -> "mkv"
      [] OTHER -> p.ext

with_suffix_keep(p, e) == p

\* Path.with_suffix: same directory, same stem, the suffix replaced
with_suffix(p, e) == [p EXCEPT !.ext = e]

RECURSIVE_ == FALSE
OVERWRITE_on == TRUE
OVERWRITE == FALSE
THRESHOLD == <<55, 100>>
MEDIA_EXTS == {"mp4", "mkv", "mov", "avi", "mpg", "mpeg",
               "mp3", "m4a", "aac", "flac", "wav", "ogg"}
SUB_EXTS == {"srt"}

----------------------------------------------------------------------------
(* normalize_stem *)

Separators == {"_", ".", "-", "(", ")", "[", "]"}

\* str.lower(), one character
Lower(c) ==
    CASE c = "A" -> "a"
      [] c = "B" -> "b"
      [] OTHER -> c

RECURSIVE Split(_)
\* str.split(): the maximal runs of non-blank characters, in order
Split(t) ==
    IF t = <<>> THEN <<>>
    ELSE IF Head(t) = " " THEN Split(Tail(t))
    ELSE LET stops == {i \in 1..Len(t) : t[i] = " "}
             n == IF stops = {} THEN Len(t)
                  ELSE (CHOOSE i \in stops : \A j \in stops : i <= j) - 1
         IN  <<SubSeq(t, 1, n)>> \o Split(SubSeq(t, n + 1, Len(t)))

RECURSIVE Join(_)
\* " ".join(words)
Join(ws) ==
    IF ws = <<>> THEN <<>>
    ELSE IF Len(ws) = 1 THEN ws[1]
    ELSE ws[1] \o <<" ">> \o Join(Tail(ws))

RECURSIVE Strip(_)
\* str.strip()
Strip(t) ==
    IF t = <<>> THEN <<>>
    ELSE IF Head(t) = " " THEN Strip(Tail(t))
    ELSE IF t[Len(t)] = " " THEN Strip(SubSeq(t, 1, Len(t) - 1))
    ELSE t

normalize_stem(stem) ==
    LET low == [i \in 1..Len(stem) |-> Lower(stem[i])]
        rep == [i \in 1..Len(stem) |-> IF low[i] \in Separators THEN " " ELSE low[i]]
    IN  Strip(Join(Split(rep)))

----------------------------------------------------------------------------
(* difflib.SequenceMatcher(None, a, b).ratio()                             *)
(* Windows are half open and 0-based, as in difflib: a[alo:ahi], b[blo:bhi]*)

Max2(x, y) == IF x >= y THEN x ELSE y
Abs(x) == IF x >= 0 THEN x ELSE -x

RECURSIVE run_from(_, _, _, _, _, _)
\* how far a[i:ahi] and b[j:bhi] agree from their first elements on
run_from(a, b, i, j, ahi, bhi) ==
    IF i < ahi /\ j < bhi /\ a[i + 1] = b[j + 1]
    THEN 1 + run_from(a, b, i + 1, j + 1, ahi, bhi)
    ELSE 0

\* find_longest_match: <<i, j, k>> with a[i:i+k] = b[j:j+k] the longest
\* common block of the two windows; among the longest the one starting
\* earliest in a, then earliest in b.
find_longest_match(a, b, alo, ahi, blo, bhi) ==
    LET blocks == {<<s[1], s[2], run_from(a, b, s[1], s[2], ahi, bhi)>> :
                      s \in (alo..(ahi - 1)) \X (blo..(bhi - 1))}
        sizes == {m[3] : m \in blocks}
        k == IF sizes = {} THEN 0 ELSE CHOOSE x \in sizes : \A y \in sizes : x >= y
        longest == {m \in blocks : m[3] = k}
    IN  IF k = 0 THEN <<alo, blo, 0>>
        ELSE CHOOSE m \in longest : \A n \in longest :
                 m[1] < n[1] \/ (m[1] = n[1] /\ m[2] <= n[2])

RECURSIVE matches(_, _, _, _, _, _)
\* get_matching_blocks, summed: the block, then the pieces left and right of it
matches(a, b, alo, ahi, blo, bhi) ==
    LET m == find_longest_match(a, b, alo, ahi, blo, bhi)
        i == m[1]
        j == m[2]
        k == m[3]
    IN  IF k = 0 THEN 0
        ELSE k
             + (IF alo < i /\ blo < j THEN matches(a, b, alo, i, blo, j) ELSE 0)
             + (IF i + k < ahi /\ j + k < bhi THEN matches(a, b, i + k, ahi, j + k, bhi) ELSE 0)

\* ratio(): 2.0 * matches / (len(a) + len(b)), and 1.0 for two empty strings
ratio(a, b) ==
    LET length == Len(a) + Len(b)
    IN  IF length = 0 THEN <<1, 1>>
        ELSE <<2 * matches(a, b, 0, Len(a), 0, Len(b)), length>>

----------------------------------------------------------------------------
(* best_media_match *)

Gt(x, y) == x[1] * y[2] > y[1] * x[2]
GtEq(x, y) == x[1] * y[2] >= y[1] * x[2]
Mul(x, y) == <<x[1] * y[1], x[2] * y[2]>>

\* 1.0 - (abs(len(s) - len(ms)) / max(len(s), len(ms), 1)) * 0.1
length_bias(s, ms) ==
    LET mx == Max2(Max2(Len(s), Len(ms)), 1)
    IN  <<10 * mx - Abs(Len(s) - Len(ms)), 10 * mx>>

score_of(s, m) ==
    LET ms == normalize_stem(m.stem)
    IN  Mul(ratio(s, ms), length_bias(s, ms))

improves_or_ties(score, best_score) == GtEq(score, best_score)

\* if score > best_score
improves(score, best_score) == Gt(score, best_score)

RECURSIVE scan(_, _, _, _, _)
\* the for loop: <<best, best_score>> after the candidates from k on
scan(s, cands, k, best, best_score) ==
    IF k > Len(cands) THEN <<best, best_score>>
    ELSE LET score == score_of(s, cands[k])
         IN  IF improves(score, best_score)
             THEN scan(s, cands, k + 1, cands[k], score)
             ELSE scan(s, cands, k + 1, best, best_score)

best_media_match(sub, cands) ==
    LET s == normalize_stem(sub.stem)
        r == scan(s, cands, 1, None, <<-1, 1>>)
    IN  IF r[1] # None /\ GtEq(r[2], THRESHOLD) THEN r[1] ELSE None

----------------------------------------------------------------------------
(* The worlds the runs start from *)

Alphabet == {"a", "B", "_"}
ExitCodes == {0, 1, 2}

Rep(c, n) == [i \in 1..n |-> c]

\* all stems of 1..n characters
Stems(n) == UNION {[1..k -> Alphabet] : k \in 1..n}

\* two stems of 20 characters that share exactly their first 11
long_sub == Rep("a", 11) \o Rep("b", 9)
long_at_threshold == Rep("a", 11) \o Rep("c", 9)

SubInputs == {Path("base", s, "srt") : s \in Stems(MaxLen) \cup {long_sub}}

MediaPool == {Path("base", <<"a">>, "mkv"), Path("base", <<"a">>, "mp4"),
              Path("base", <<"a", "_">>, "mkv"), Path("base", <<"B">>, "mkv"),
              Path("base", <<"a", "B">>, "mkv"), Path("base", <<"_">>, "mkv"),
              Path("base", long_at_threshold, "mkv"),
              Path("base", long_at_threshold, "mp4")}

\* the lists of up to n distinct paths of S
Lists(S, n) ==
    UNION {{f \in [1..k -> S] : \A i, j \in 1..k : f[i] = f[j] => i = j} : k \in 0..n}

\* the files a picked folder may hold
Universe == {Path("base", <<"a">>, "srt"), Path("base", <<"a">>, "SRT"),
             Path("base", <<"a", "_">>, "srt"), Path("base", <<"B">>, "srt"),
             Path("base", <<"a">>, "mkv"), Path("base", <<"a">>, "mp4"),
             Path("base", <<"a", "B">>, "MKV"), Path("base", <<"a">>, "txt"),
             Path("base/sub", <<"a">>, "mkv")}

Range(f) == {f[i] : i \in DOMAIN f}

idleBatch ==
    /\ folder = "" /\ all_files = <<>> /\ subs = <<>> /\ media_by_dir = <<>>
    /\ idx = 0 /\ synced = <<>> /\ skipped = <<>> /\ failed = <<>>

idleSingle ==
    /\ media = None /\ subsf = None /\ out_srt = None
    /\ aeneas_importable = FALSE /\ have_ffmpeg = FALSE /\ have_ffprobe = FALSE
    /\ td = "none" /\ scratch = {} /\ msgs = <<>> /\ fallback_attempted = FALSE

idleMatch == for_sub = None /\ media_files = <<>> /\ result = None

InitMatch ==
    /\ prog = "match" /\ pc = "call"
    /\ fs = {} /\ calls = <<>> /\ have_ffsubsync = FALSE
    /\ idleBatch /\ idleSingle
    /\ for_sub \in SubInputs
    /\ media_files \in Lists(MediaPool, MaxCands)
    /\ result = None

InitBatch ==
    /\ prog = "subsbatch" /\ pc = "start"
    /\ fs \in {F \in SUBSET Universe : Cardinality(F) <= MaxFiles}
    /\ calls = <<>>
    /\ have_ffsubsync \in BOOLEAN
    /\ folder \in {"", "base"}
    /\ all_files = <<>> /\ subs = <<>> /\ media_by_dir = <<>>
    /\ idx = 0 /\ synced = <<>> /\ skipped = <<>> /\ failed = <<>>
    /\ idleSingle /\ idleMatch

----------------------------------------------------------------------------
(* best_media_match on its own *)

M_Call ==
    /\ prog = "match" /\ pc = "call"
    /\ result' = best_media_match(for_sub, media_files)
    /\ pc' = "returned"
    /\ UNCHANGED <<prog, fs, calls, have_ffsubsync, for_sub, media_files>>
    /\ UNCHANGED batchVars /\ UNCHANGED singleVars

----------------------------------------------------------------------------
(* subsbatch.main *)

\* root.rglob("*") reaches the subfolder too, root.glob("*") only root's files
is_file_under(p, root) ==
    IF RECURSIVE_ THEN p.dir = root \/ (root = "base" /\ p.dir = "base/sub")
    ELSE p.dir = root

\* the listings gather_files may return: the files found, in any order
gather_files(root) ==
    LET found == {p \in fs : is_file_under(p, root)}
    IN  {f \in [1..Cardinality(found) -> found] : Range(f) = found}

is_sub(p) == suffix_lower(p) \in SUB_EXTS
is_media(p) == suffix_lower(p) \in MEDIA_EXTS

\* media_by_dir.setdefault(p.parent, []).append(p), over the listing
group_media(listing) ==
    LET dirs == {p.dir : p \in {q \in Range(listing) : is_media(q)}}
    IN  [d \in dirs |-> LET here(p) == is_media(p) /\ p.dir = d
                        IN  SelectSeq(listing, here)]

exists_at_gather(p) == p \in Range(all_files)

\* Path.exists()
exists(p) == p \in fs

output_blocked(out) == exists(out) /\ ~OVERWRITE

succeeded_always(code) == TRUE

\* if code == 0
succeeded(code) == code = 0

ffsubsync_error(code) ==
    CASE code = 1 -> "ffsubsync error (1)"
      [] code = 2 -> "ffsubsync error (2)"
      [] OTHER -> "ffsubsync error"

record_lost(list, entry) == list

\* list.append(entry)
record(list, entry) == Append(list, entry)

\* the locals of the loop body at position k
candidates_at(k) ==
    IF subs[k].dir \in DOMAIN media_by_dir THEN media_by_dir[subs[k].dir] ELSE <<>>
match_at(k) == best_media_match(subs[k], candidates_at(k))
out_at(k) == with_suffix(match_at(k), "srt")

in_loop == prog = "subsbatch" /\ pc = "loop" /\ idx <= Len(subs)

\* the branch the loop body takes for the subtitle at position k
no_media(k) == candidates_at(k) = <<>>
no_match(k) == candidates_at(k) # <<>> /\ match_at(k) = None
blocked(k) ==
    candidates_at(k) # <<>> /\ match_at(k) # None /\ output_blocked(out_at(k))
aligns(k) ==
    candidates_at(k) # <<>> /\ match_at(k) # None /\ ~output_blocked(out_at(k))

B_MissingTool ==
    /\ prog = "subsbatch" /\ pc = "start"
    /\ ~have_ffsubsync
    /\ pc' = "exit1"
    /\ UNCHANGED <<prog, fs, calls, have_ffsubsync>>
    /\ UNCHANGED batchVars /\ UNCHANGED singleVars /\ UNCHANGED matchVars

B_Cancel ==
    /\ prog = "subsbatch" /\ pc = "start"
    /\ have_ffsubsync
    /\ folder = ""
    /\ pc' = "exit0"
    /\ UNCHANGED <<prog, fs, calls, have_ffsubsync>>
    /\ UNCHANGED batchVars /\ UNCHANGED singleVars /\ UNCHANGED matchVars

B_GatherNone ==
    /\ prog = "subsbatch" /\ pc = "start"
    /\ have_ffsubsync
    /\ folder # ""
    /\ \E listing \in gather_files(folder) :
          /\ SelectSeq(listing, is_sub) = <<>>
          /\ all_files' = listing
          /\ subs' = <<>>
          /\ media_by_dir' = group_media(listing)
    /\ pc' = "exit0"
    /\ UNCHANGED <<prog, fs, calls, have_ffsubsync, folder, idx, synced, skipped, failed>>
    /\ UNCHANGED singleVars /\ UNCHANGED matchVars

B_Gather ==
    /\ prog = "subsbatch" /\ pc = "start"
    /\ have_ffsubsync
    /\ folder # ""
    /\ \E listing \in gather_files(folder) :
          /\ SelectSeq(listing, is_sub) # <<>>
          /\ all_files' = listing
          /\ subs' = SelectSeq(listing, is_sub)
          /\ media_by_dir' = group_media(listing)
    /\ synced' = <<>> /\ skipped' = <<>> /\ failed' = <<>>
    /\ idx' = 1
    /\ pc' = "loop"
    /\ UNCHANGED <<prog, fs, calls, have_ffsubsync, folder>>
    /\ UNCHANGED singleVars /\ UNCHANGED matchVars

B_NoMedia ==
    /\ in_loop
    /\ no_media(idx)
    /\ failed' = record(failed, <<subs[idx], "no media in folder">>)
    /\ idx' = idx + 1
    /\ UNCHANGED <<prog, pc, fs, calls, have_ffsubsync, folder, all_files, subs,
                   media_by_dir, synced, skipped>>
    /\ UNCHANGED singleVars /\ UNCHANGED matchVars

B_NoMatch ==
    /\ in_loop
    /\ no_match(idx)
    /\ failed' = record(failed, <<subs[idx], "no good match">>)
    /\ idx' = idx + 1
    /\ UNCHANGED <<prog, pc, fs, calls, have_ffsubsync, folder, all_files, subs,
                   media_by_dir, synced, skipped>>
    /\ UNCHANGED singleVars /\ UNCHANGED matchVars

B_Skip ==
    /\ in_loop
    /\ blocked(idx)
    /\ skipped' = record(skipped, <<subs[idx], "exists">>)
    /\ idx' = idx + 1
    /\ UNCHANGED <<prog, pc, fs, calls, have_ffsubsync, folder, all_files, subs,
                   media_by_dir, synced, failed>>
    /\ UNCHANGED singleVars /\ UNCHANGED matchVars

\* run(["ffsubsync", m, "-i", srt, "-o", out_srt]) and what follows it.  The
\* tool writes out_srt when it exits 0 and leaves no file when it fails.
B_AlignOk ==
    /\ in_loop
    /\ aligns(idx)
    /\ \E code \in ExitCodes :
          /\ succeeded(code)
          /\ calls' = Append(calls, [tool |-> "ffsubsync", media |-> match_at(idx),
                                     input |-> subs[idx], out |-> out_at(idx),
                                     code |-> code])
          /\ fs' = IF code = 0 THEN fs \cup {out_at(idx)} ELSE fs
    /\ synced' = record(synced, <<subs[idx], match_at(idx)>>)
    /\ idx' = idx + 1
    /\ UNCHANGED <<prog, pc, have_ffsubsync, folder, all_files, subs,
                   media_by_dir, skipped, failed>>
    /\ UNCHANGED singleVars /\ UNCHANGED matchVars

B_AlignFail ==
    /\ in_loop
    /\ aligns(idx)
    /\ \E code \in ExitCodes :
          /\ ~succeeded(code)
          /\ calls' = Append(calls, [tool |-> "ffsubsync", media |-> match_at(idx),
                                     input |-> subs[idx], out |-> out_at(idx),
                                     code |-> code])
          /\ failed' = record(failed, <<subs[idx], ffsubsync_error(code)>>)
    /\ idx' = idx + 1
    /\ UNCHANGED <<prog, pc, fs, have_ffsubsync, folder, all_files, subs,
                   media_by_dir, synced, skipped>>
    /\ UNCHANGED singleVars /\ UNCHANGED matchVars

B_Summary ==
    /\ prog = "subsbatch" /\ pc = "loop"
    /\ idx > Len(subs)
    /\ pc' = "summary"
    /\ UNCHANGED <<prog, fs, calls, have_ffsubsync>>
    /\ UNCHANGED batchVars /\ UNCHANGED singleVars /\ UNCHANGED matchVars

----------------------------------------------------------------------------
(* subsynch.main *)

MediaChoices == {Path("base", <<"a">>, "mkv"), Path("base", <<"B">>, "mp4")}
SubChoices == {Path("base", <<"a">>, "srt"), Path("other", <<"a", "_">>, "srt")}

text_txt == Path("td", <<"t", "e", "x", "t">>, "txt")
audio_wav == Path("td", <<"a", "u", "d", "i", "o">>, "wav")

InitSingle ==
    /\ prog = "subsynch" /\ pc = "start"
    /\ media \in MediaChoices \cup {None}
    /\ subsf \in SubChoices \cup {None}
    /\ media = None => subsf = None
    /\ fs = {media, subsf} \ {None}
    /\ calls = <<>>
    /\ have_ffsubsync \in BOOLEAN
    /\ aeneas_importable \in BOOLEAN
    /\ have_ffmpeg \in BOOLEAN
    /\ have_ffprobe \in BOOLEAN
    /\ out_srt = None
    /\ td = "none" /\ scratch = {} /\ msgs = <<>> /\ fallback_attempted = FALSE
    /\ idleBatch /\ idleMatch

aligned_any(code) == TRUE

\* align_with_ffsubsync returns normally: not (code != 0)
aligned(code) == code = 0

deps_either(f, p) == f \/ p

\* not (not have("ffmpeg") or not have("ffprobe"))
deps_available(f, p) == f /\ p

cleanup_skipped(state) == state

\* TemporaryDirectory.__exit__: the directory and what it holds are removed
cleanup(state) == "removed"

\* pick_media_and_subs: an empty answer to either dialog ends the run
S_Cancel ==
    /\ prog = "subsynch" /\ pc = "start"
    /\ media = None \/ subsf = None
    /\ pc' = "exit0"
    /\ UNCHANGED <<prog, fs, calls, have_ffsubsync>>
    /\ UNCHANGED batchVars /\ UNCHANGED singleVars /\ UNCHANGED matchVars

S_Pick ==
    /\ prog = "subsynch" /\ pc = "start"
    /\ media # None /\ subsf # None
    /\ out_srt' = with_suffix(media, "srt")
    /\ pc' = "primary"
    /\ UNCHANGED <<prog, fs, calls, have_ffsubsync, media, subsf, aeneas_importable,
                   have_ffmpeg, have_ffprobe, td, scratch, msgs, fallback_attempted>>
    /\ UNCHANGED batchVars /\ UNCHANGED matchVars

S_PrimaryMissing ==
    /\ prog = "subsynch" /\ pc = "primary"
    /\ ~have_ffsubsync
    /\ pc' = "fallback"
    /\ UNCHANGED <<prog, fs, calls, have_ffsubsync>>
    /\ UNCHANGED batchVars /\ UNCHANGED singleVars /\ UNCHANGED matchVars

S_PrimaryOk ==
    /\ prog = "subsynch" /\ pc = "primary"
    /\ have_ffsubsync
    /\ \E code \in ExitCodes :
          /\ aligned(code)
          /\ calls' = Append(calls, [tool |-> "ffsubsync", media |-> media,
                                     input |-> subsf, out |-> out_srt, code |-> code])
          /\ fs' = IF code = 0 THEN fs \cup {out_srt} ELSE fs
    /\ msgs' = Append(msgs, "Done")
    /\ pc' = "done"
    /\ UNCHANGED <<prog, have_ffsubsync, media, subsf, out_srt, aeneas_importable,
                   have_ffmpeg, have_ffprobe, td, scratch, fallback_attempted>>
    /\ UNCHANGED batchVars /\ UNCHANGED matchVars

S_PrimaryFail ==
    /\ prog = "subsynch" /\ pc = "primary"
    /\ have_ffsubsync
    /\ \E code \in ExitCodes :
          /\ ~aligned(code)
          /\ calls' = Append(calls, [tool |-> "ffsubsync", media |-> media,
                                     input |-> subsf, out |-> out_srt, code |-> code])
    /\ pc' = "fallback"
    /\ UNCHANGED <<prog, fs, have_ffsubsync>>
    /\ UNCHANGED batchVars /\ UNCHANGED singleVars /\ UNCHANGED matchVars

S_ImportError ==
    /\ prog = "subsynch" /\ pc = "fallback"
    /\ ~aeneas_importable
    /\ msgs' = Append(msgs, "Neither ffsubsync nor aeneas available")
    /\ pc' = "done"
    /\ UNCHANGED <<prog, fs, calls, have_ffsubsync, media, subsf, out_srt,
                   aeneas_importable, have_ffmpeg, have_ffprobe, td, scratch,
                   fallback_attempted>>
    /\ UNCHANGED batchVars /\ UNCHANGED matchVars

\* maybe_align_with_aeneas is entered: the directory is made, the text written
S_FallbackEnter ==
    /\ prog = "subsynch" /\ pc = "fallback"
    /\ aeneas_importable
    /\ fallback_attempted' = TRUE
    /\ td' = "live"
    /\ scratch' = {text_txt}
    /\ pc' = "deps"
    /\ UNCHANGED <<prog, fs, calls, have_ffsubsync, media, subsf, out_srt,
                   aeneas_importable, have_ffmpeg, have_ffprobe, msgs>>
    /\ UNCHANGED batchVars /\ UNCHANGED matchVars

S_DepsMissing ==
    /\ prog = "subsynch" /\ pc = "deps"
    /\ ~deps_available(have_ffmpeg, have_ffprobe)
    /\ td' = cleanup(td)
    /\ scratch' = IF td' = "removed" THEN {} ELSE scratch
    /\ msgs' = Append(msgs, "aeneas fallback failed: needs ffmpeg/ffprobe")
    /\ pc' = "done"
    /\ UNCHANGED <<prog, fs, calls, have_ffsubsync, media, subsf, out_srt,
                   aeneas_importable, have_ffmpeg, have_ffprobe, fallback_attempted>>
    /\ UNCHANGED batchVars /\ UNCHANGED matchVars

S_TranscodeFail ==
    /\ prog = "subsynch" /\ pc = "deps"
    /\ deps_available(have_ffmpeg, have_ffprobe)
    /\ \E code \in ExitCodes :
          /\ code # 0
          /\ calls' = Append(calls, [tool |-> "ffmpeg", media |-> media,
                                     input |-> None, out |-> audio_wav, code |-> code])
    /\ td' = cleanup(td)
    /\ scratch' = IF td' = "removed" THEN {} ELSE scratch
    /\ msgs' = Append(msgs, "aeneas fallback failed: FFmpeg failed")
    /\ pc' = "done"
    /\ UNCHANGED <<prog, fs, have_ffsubsync, media, subsf, out_srt,
                   aeneas_importable, have_ffmpeg, have_ffprobe, fallback_attempted>>
    /\ UNCHANGED batchVars /\ UNCHANGED matchVars

S_TranscodeOk ==
    /\ prog = "subsynch" /\ pc = "deps"
    /\ deps_available(have_ffmpeg, have_ffprobe)
    /\ calls' = Append(calls, [tool |-> "ffmpeg", media |-> media,
                               input |-> None, out |-> audio_wav, code |-> 0])
    /\ scratch' = scratch \cup {audio_wav}
    /\ pc' = "aeneas"
    /\ UNCHANGED <<prog, fs, have_ffsubsync, media, subsf, out_srt, aeneas_importable,
                   have_ffmpeg, have_ffprobe, td, msgs, fallback_attempted>>
    /\ UNCHANGED batchVars /\ UNCHANGED matchVars

S_AeneasFail ==
    /\ prog = "subsynch" /\ pc = "aeneas"
    /\ \E code \in ExitCodes :
          /\ code # 0
          /\ calls' = Append(calls, [tool |-> "aeneas", media |-> audio_wav,
                                     input |-> text_txt, out |-> out_srt, code |-> code])
    /\ td' = cleanup(td)
    /\ scratch' = IF td' = "removed" THEN {} ELSE scratch
    /\ msgs' = Append(msgs, "aeneas fallback failed: aeneas failed")
    /\ pc' = "done"
    /\ UNCHANGED <<prog, fs, have_ffsubsync, media, subsf, out_srt,
                   aeneas_importable, have_ffmpeg, have_ffprobe, fallback_attempted>>
    /\ UNCHANGED batchVars /\ UNCHANGED matchVars

S_AeneasOk ==
    /\ prog = "subsynch" /\ pc = "aeneas"
    /\ calls' = Append(calls, [tool |-> "aeneas", media |-> audio_wav,
                               input |-> text_txt, out |-> out_srt, code |-> 0])
    /\ fs' = fs \cup {out_srt}
    /\ td' = cleanup(td)
    /\ scratch' = IF td' = "removed" THEN {} ELSE scratch
    /\ msgs' = Append(msgs, "Done (aeneas)")
    /\ pc' = "done"
    /\ UNCHANGED <<prog, have_ffsubsync, media, subsf, out_srt,
                   aeneas_importable, have_ffmpeg, have_ffprobe, fallback_attempted>>
    /\ UNCHANGED batchVars /\ UNCHANGED matchVars

----------------------------------------------------------------------------

Init == InitMatch \/ InitBatch \/ InitSingle

Next ==
    \/ M_Call
    \/ B_MissingTool \/ B_Cancel \/ B_GatherNone \/ B_Gather
    \/ B_NoMedia \/ B_NoMatch \/ B_Skip \/ B_AlignOk \/ B_AlignFail \/ B_Summary
    \/ S_Cancel \/ S_Pick \/ S_PrimaryMissing \/ S_PrimaryOk \/ S_PrimaryFail
    \/ S_ImportError \/ S_FallbackEnter \/ S_DepsMissing
    \/ S_TranscodeFail \/ S_TranscodeOk \/ S_AeneasFail \/ S_AeneasOk

Spec == Init /\ [][Next]_vars

----------------------------------------------------------------------------
(* Properties of subsbatch.main *)

\* position of a discovered subtitle in subs (the paths of a listing differ)
pos(p) == CHOOSE k \in 1..Len(subs) : subs[k] = p

firsts(list) == [k \in 1..Len(list) |-> list[k][1]]

\* how often subtitle p is recorded in the three lists together
times_recorded(p) ==
    Cardinality({k \in 1..Len(synced) : synced[k][1] = p})
    + Cardinality({k \in 1..Len(skipped) : skipped[k][1] = p})
    + Cardinality({k \in 1..Len(failed) : failed[k][1] = p})

in_gathering_order(list) ==
    \A j, k \in 1..Len(list) : j < k => pos(list[j][1]) < pos(list[k][1])

aligner_errors == {ffsubsync_error(c) : c \in ExitCodes \ {0}}

\* C1: in batch mode the loop handles the discovered subtitles one by one in
\* gathering order whatever each one's result is (one of the branches of the
\* loop body applies to every subtitle), and at the summary every discovered subtitle is in
\* exactly one of synced / skipped / failed, so the three lengths add up to
\* the number of discovered subtitles.
C1_BatchRecordsEverySubtitleOnce ==
    (prog = "subsbatch" /\ pc \in {"loop", "summary"}) =>
        /\ idx \in 1..(Len(subs) + 1)
        /\ Len(synced) + Len(skipped) + Len(failed) = idx - 1
        /\ \A k \in 1..Len(subs) :
              times_recorded(subs[k]) = IF k < idx THEN 1 ELSE 0
        /\ Range(firsts(synced)) \cup Range(firsts(skipped)) \cup Range(firsts(failed))
              \subseteq Range(subs)
        /\ in_gathering_order(synced)
        /\ in_gathering_order(skipped)
        /\ in_gathering_order(failed)
        /\ in_loop => no_media(idx) \/ no_match(idx) \/ blocked(idx) \/ aligns(idx)
        /\ pc = "summary" =>
              /\ idx = Len(subs) + 1
              /\ Len(synced) + Len(skipped) + Len(failed) = Len(subs)

\* an aligner failure for one subtitle, and a later subtitle synced after it
C1_Witness ==
    /\ prog = "subsbatch" /\ pc = "summary"
    /\ \E f \in 1..Len(failed), s \in 1..Len(synced) :
          /\ failed[f][2] \in aligner_errors
          /\ pos(failed[f][1]) < pos(synced[s][1])

\* C2: in batch mode with OVERWRITE false, a subtitle whose computed output
\* path exists when the subtitle is processed is recorded as Skipped, no
\* external process is run for it and the filesystem is left as it is; this
\* covers outputs that were there before the run and outputs written earlier
\* in the run.
C2_ExistingOutputIsSkipped ==
    [][(/\ in_loop
        /\ candidates_at(idx) # <<>>
        /\ match_at(idx) # None
        /\ ~OVERWRITE
        /\ [dir |-> match_at(idx).dir, stem |-> match_at(idx).stem, ext |-> "srt"] \in fs)
       => (/\ skipped' = Append(skipped, <<subs[idx], "exists">>)
           /\ calls' = calls
           /\ fs' = fs
           /\ synced' = synced
           /\ failed' = failed
           /\ idx' = idx + 1)]_vars

\* a subtitle skipped because of a file the run itself wrote for an earlier one
C2_Witness ==
    /\ prog = "subsbatch"
    /\ \E k \in 1..Len(skipped), i \in 1..Len(calls) :
          /\ calls[i].code = 0
          /\ calls[i].out = out_at(pos(skipped[k][1]))
          /\ calls[i].out \notin Range(all_files)

\* C6: after a batch run each Synced subtitle has its own output file, beside
\* its matched media and named <media-stem>.srt: the files the run wrote are
\* as many as the Synced subtitles, and no two Synced subtitles share one.
C6_OneOutputPerSynced ==
    prog = "subsbatch" =>
        LET output(k) == [dir |-> synced[k][2].dir, stem |-> synced[k][2].stem,
                          ext |-> "srt"]
            written == {calls[i].out : i \in {j \in 1..Len(calls) : calls[j].code = 0}}
        IN  /\ \A k \in 1..Len(synced) : output(k) \in fs /\ output(k) \in written
            /\ \A j, k \in 1..Len(synced) : output(j) = output(k) => j = k
            /\ Cardinality(written) = Len(synced)

\* two subtitles matched to the same media: one synced, the other skipped
C6_Witness ==
    /\ prog = "subsbatch" /\ pc = "summary"
    /\ \E s \in 1..Len(synced), k \in 1..Len(skipped) :
          match_at(pos(skipped[k][1])) = synced[s][2]

\* C9: in batch mode at most one external process is run per discovered
\* subtitle and it is ffsubsync; a subtitle is Synced exactly when that run
\* happened and exited 0, Failed with an ffsubsync error exactly when it
\* exited nonzero, and subtitles failing for want of media or of a good match,
\* and skipped subtitles, cause no run.
C9_OneAlignerRunPerSubtitle ==
    prog = "subsbatch" =>
        LET ran(p, codes) == \E i \in 1..Len(calls) :
                                calls[i].input = p /\ calls[i].code \in codes
        IN  /\ \A i \in 1..Len(calls) : calls[i].tool = "ffsubsync"
            /\ \A i, j \in 1..Len(calls) : calls[i].input = calls[j].input => i = j
            /\ \A i \in 1..Len(calls) : \E k \in 1..Len(subs) :
                  k < idx /\ subs[k] = calls[i].input
            /\ \A k \in 1..Len(subs) :
                  /\ subs[k] \in Range(firsts(synced)) <=> ran(subs[k], {0})
                  /\ (\E f \in 1..Len(failed) :
                          failed[f][1] = subs[k] /\ failed[f][2] \in aligner_errors)
                        <=> ran(subs[k], ExitCodes \ {0})
                  /\ (\E f \in 1..Len(failed) :
                          failed[f][1] = subs[k] /\ failed[f][2] \notin aligner_errors)
                        => ~ran(subs[k], ExitCodes)
                  /\ subs[k] \in Range(firsts(skipped)) => ~ran(subs[k], ExitCodes)
            /\ \A i \in 1..Len(calls), f \in 1..Len(failed) :
                  failed[f][1] = calls[i].input =>
                      failed[f][2] = ffsubsync_error(calls[i].code)

\* two runs, one per subtitle: one exited 0, the other did not
C9_Witness ==
    /\ prog = "subsbatch" /\ pc = "summary"
    /\ synced # <<>>
    /\ \E f \in 1..Len(failed) : failed[f][2] \in aligner_errors
    /\ Len(calls) = 2

same_name_as_match(k) ==
    /\ match_at(k) # None
    /\ match_at(k).dir = subs[k].dir
    /\ match_at(k).stem = subs[k].stem

never_writes_an_input ==
    \A i \in 1..Len(calls) : calls[i].out \notin Range(subs)

\* C10 as stated: in batch mode with OVERWRITE false the aligner is never
\* given an output path that is the path of a discovered subtitle, and so a
\* subtitle whose best match has its own directory and its own stem is always
\* Skipped and never Synced.
C10_Original ==
    prog = "subsbatch" =>
        /\ never_writes_an_input
        /\ \A k \in 1..Len(subs) : (k < idx /\ same_name_as_match(k)) =>
              /\ subs[k] \in Range(firsts(skipped))
              /\ subs[k] \notin Range(firsts(synced))

\* C10 amended: the aligner is never given an output path that is the path
\* of a discovered subtitle, and a subtitle whose suffix is exactly .srt and
\* whose best match has its own directory and its own stem is always Skipped
\* and never Synced.
C10_NoInputClobbered ==
    prog = "subsbatch" =>
        /\ never_writes_an_input
        /\ \A k \in 1..Len(subs) :
              (k < idx /\ same_name_as_match(k) /\ subs[k].ext = "srt") =>
                  /\ subs[k] \in Range(firsts(skipped))
                  /\ subs[k] \notin Range(firsts(synced))

\* a subtitle named like its matched media has been processed and skipped
C10_Witness ==
    /\ prog = "subsbatch"
    /\ \E k \in 1..Len(subs) :
          /\ k < idx
          /\ same_name_as_match(k)
          /\ subs[k].ext = "srt"
          /\ subs[k] \in Range(firsts(skipped))

----------------------------------------------------------------------------
(* Properties of best_media_match *)

\* C3: best_media_match returns the first candidate, in list order, whose
\* combined score is the largest of the list, provided that score is at least
\* 0.55 (a score of exactly 0.55 is accepted), and None when the list is
\* empty or the largest score is below 0.55; of candidates with equal scores
\* the one listed earlier is returned.
C3_FirstBestAboveThreshold ==
    (prog = "match" /\ pc = "returned") =>
        LET s == normalize_stem(for_sub.stem)
            n == Len(media_files)
            sc(k) == score_of(s, media_files[k])
            top == {k \in 1..n : \A j \in 1..n : sc(k)[1] * sc(j)[2] >= sc(j)[1] * sc(k)[2]}
            first == CHOOSE k \in top : \A j \in top : k <= j
        IN  IF n = 0 THEN result = None
            ELSE IF 100 * sc(first)[1] >= 55 * sc(first)[2]
                 THEN result = media_files[first]
                 ELSE result = None

\* two candidates that both score exactly 0.55: the first one is returned
C3_Witness ==
    /\ prog = "match" /\ pc = "returned"
    /\ Len(media_files) = 2
    /\ \A k \in 1..2 :
          LET sc == score_of(normalize_stem(for_sub.stem), media_files[k])
          IN  100 * sc[1] = 55 * sc[2]
    /\ result = media_files[1]

----------------------------------------------------------------------------
(* Properties of both entry points *)

aligners == {"ffsubsync", "aeneas"}

\* C4: in batch mode and in single-pair mode every run of an aligner, primary
\* or fallback, is given as output path the path of the media file (the
\* matched one, or the chosen one) with the suffix replaced by .srt: the
\* media's directory and stem, never the subtitle's.
C4_OutputNamedAfterMedia ==
    \A i \in 1..Len(calls) :
        calls[i].tool \in aligners =>
            LET of == IF prog = "subsbatch" THEN calls[i].media ELSE media
            IN  /\ calls[i].out.dir = of.dir
                /\ calls[i].out.stem = of.stem
                /\ calls[i].out.ext = "srt"
                /\ prog = "subsbatch" =>
                      of = match_at(pos(calls[i].input))
                /\ (prog = "subsynch" /\ calls[i].tool = "ffsubsync") =>
                      calls[i].media = media

\* both aligners were run for a subtitle that is named unlike the media
C4_Witness ==
    /\ prog = "subsynch"
    /\ Len(calls) = 3
    /\ calls[1].tool = "ffsubsync"
    /\ calls[3].tool = "aeneas"
    /\ subsf.stem # media.stem
    /\ subsf.dir # media.dir

----------------------------------------------------------------------------
(* Properties of subsynch.main *)

successes == {"Done", "Done (aeneas)"}

\* C5: in single-pair mode, once the pair is chosen, ffsubsync is run first
\* whenever it is on the search path; the fallback is attempted exactly when
\* ffsubsync is absent or exited nonzero and aeneas is importable, and never
\* after ffsubsync succeeded; a success message is printed at most once and
\* only after an aligner run that exited 0, and when neither path succeeds
\* the one message printed is a failure.
C5_PrimaryThenFallback ==
    prog = "subsynch" =>
        LET prim == {i \in 1..Len(calls) : calls[i].tool = "ffsubsync"}
            fall == {i \in 1..Len(calls) : calls[i].tool \in {"ffmpeg", "aeneas"}}
            primary_failed == \E i \in prim : calls[i].code # 0
            primary_ok == \E i \in prim : calls[i].code = 0
            aligned_ok == \E i \in 1..Len(calls) :
                             calls[i].tool \in aligners /\ calls[i].code = 0
            good == {k \in 1..Len(msgs) : msgs[k] \in successes}
        IN  /\ prim \subseteq {1}
            /\ prim # {} => have_ffsubsync
            /\ pc \in {"fallback", "deps", "aeneas", "done"} =>
                  (have_ffsubsync <=> prim = {1})
            /\ fall # {} => fallback_attempted
            /\ fallback_attempted =>
                  (~have_ffsubsync \/ primary_failed) /\ aeneas_importable
            /\ pc = "done" =>
                  (fallback_attempted <=>
                      ((~have_ffsubsync \/ primary_failed) /\ aeneas_importable))
            /\ primary_ok => (~fallback_attempted /\ fall = {})
            /\ Cardinality(good) <= 1
            /\ good # {} =>
                  /\ calls # <<>>
                  /\ calls[Len(calls)].tool \in aligners
                  /\ calls[Len(calls)].code = 0
            /\ pc = "done" =>
                  /\ Len(msgs) = 1
                  /\ ~aligned_ok => good = {}
            /\ pc # "done" => msgs = <<>>

\* ffsubsync failed, then the fallback succeeded
C5_Witness ==
    /\ prog = "subsynch" /\ pc = "done"
    /\ have_ffsubsync
    /\ calls[1].tool = "ffsubsync" /\ calls[1].code # 0
    /\ fallback_attempted
    /\ msgs = <<"Done (aeneas)">>

\* C7: the steps of the fallback are gates: ffmpeg runs only when ffmpeg and
\* ffprobe are both there, else the fallback ends with the missing tools'
\* error; aeneas runs only right after ffmpeg exited 0, else the fallback ends
\* with the transcoding error; aeneas exiting nonzero ends it with the
\* alignment error.  After any of the three nothing more is run and main
\* prints the failure, never a success.
C7_FallbackGates ==
    prog = "subsynch" =>
        LET n == Len(calls)
            deps == have_ffmpeg /\ have_ffprobe
        IN  /\ \A i \in 1..n : calls[i].tool = "ffmpeg" => deps
            /\ \A i \in 1..n : calls[i].tool = "aeneas" =>
                  i > 1 /\ calls[i - 1].tool = "ffmpeg" /\ calls[i - 1].code = 0
            /\ \A i \in 1..n :
                  (calls[i].tool \in {"ffmpeg", "aeneas"} /\ calls[i].code # 0) =>
                      /\ i = n
                      /\ pc = "done"
            /\ (pc = "done" /\ fallback_attempted) =>
                  IF ~deps
                  THEN /\ msgs = <<"aeneas fallback failed: needs ffmpeg/ffprobe">>
                       /\ \A i \in 1..n : calls[i].tool = "ffsubsync"
                  ELSE /\ n > 0
                       /\ calls[n].tool \in {"ffmpeg", "aeneas"}
                       /\ (calls[n].tool = "ffmpeg") =>
                             msgs = <<"aeneas fallback failed: FFmpeg failed">>
                       /\ (calls[n].tool = "aeneas" /\ calls[n].code # 0) =>
                             msgs = <<"aeneas fallback failed: aeneas failed">>
                       /\ (calls[n].tool = "aeneas" /\ calls[n].code = 0) =>
                             msgs = <<"Done (aeneas)">>

\* the transcoder failed: the run is over and aeneas was never started
C7_Witness ==
    /\ prog = "subsynch" /\ pc = "done"
    /\ calls # <<>>
    /\ calls[Len(calls)].tool = "ffmpeg"
    /\ calls[Len(calls)].code # 0
    /\ msgs = <<"aeneas fallback failed: FFmpeg failed">>

\* C8: the temporary directory of the fallback exists only while one fallback
\* attempt is running; however the attempt ends (success, ffmpeg or ffprobe
\* missing, ffmpeg failing, aeneas failing) the directory and its files are
\* gone when maybe_align_with_aeneas is left.
C8_ScratchRemoved ==
    prog = "subsynch" =>
        /\ td = "live" <=> pc \in {"deps", "aeneas"}
        /\ td = "none" <=> ~fallback_attempted
        /\ (pc = "done" /\ fallback_attempted) => td = "removed"
        /\ td # "live" => scratch = {}

\* a fallback attempt that failed in aeneas, its directory removed
C8_Witness ==
    /\ prog = "subsynch" /\ pc = "done"
    /\ td = "removed"
    /\ msgs = <<"aeneas fallback failed: aeneas failed">>

====
